---- MODULE Spec2Model ----
(***************************************************************************)
(* Model of the switch management onboarding check                         *)
(* (switch_ip_check.py and the mist package).                              *)
(*                                                                         *)
(* One run of the script: parse the command line, build the Org (sites,    *)
(* network templates, template attachment, switches), run check_switches   *)
(* and print the table.  The remote controller is the variable `remote`;   *)
(* every api.get may fail.                                                 *)
(*                                                                         *)
(* Conventions                                                             *)
(*  - a dict key that may be missing is a sequence of length 0 or 1;       *)
(*  - strings the code takes apart (MAC, VLAN label, name) are sequences   *)
(*    of one-character strings;                                            *)
(*  - an IPv4 address is a number; it parses iff it is below 2^AddrBits;   *)
(*  - a netmask is the number of host bits it leaves;                      *)
(*  - a Python value whose type matters (int or str) is a PyInt or PyStr.  *)
(***************************************************************************)
EXTENDS Integers, Sequences, FiniteSets, TLC

VARIABLES pc, remote, cli, site_list, switch_list, sites, network_templates,
          new_switches, site_idx, switches, selected, idx, rows, log,
          exit_code, printed

vars == <<pc, remote, cli, site_list, switch_list, sites, network_templates,
          new_switches, site_idx, switches, selected, idx, rows, log,
          exit_code, printed>>

\* ------------------------------------------------------------------ bounds
\* Width of an address in bits (32 in the program).
AddrBits == 3
\* Largest number of switches the remote inventory holds.
MaxSwitches == 2
\* Largest number of entries of a device's VLAN -> IP mapping.
MaxIps == 2

\* ------------------------------------------------------- optional values
None == <<>>
Some(v) == <<v>>
Has(o) == Len(o) = 1
Val(o) == o[1]

\* ------------------------------------------------------------ Python values
PyInt(n) == [kind |-> "int", n |-> n, s |-> <<>>]
PyStr(s) == [kind |-> "str", n |-> 0, s |-> s]

\* ----------------------------------------------------------------- strings
RECURSIVE LStrip(_, _)
LStrip(s, chars) ==
    IF s # <<>> /\ Head(s) \in chars THEN LStrip(Tail(s), chars) ELSE s

RECURSIVE RStrip(_, _)
RStrip(s, chars) ==
    IF s # <<>> /\ s[Len(s)] \in chars THEN RStrip(SubSeq(s, 1, Len(s) - 1), chars) ELSE s

\* str.strip(chars): drops leading and trailing characters that are in chars.
Strip(s, chars) == RStrip(LStrip(s, chars), chars)

Upper(c) == CASE c = "a" -> "A" [] c = "b" -> "B" [] c = "f" -> "F" [] OTHER -> c
Lower(c) == CASE c = "A" -> "a" [] c = "B" -> "b" [] c = "F" -> "f" [] OTHER -> c

\* ':'.join([mac[i:i + 2].upper() for i in range(0, len(mac), 2)])
RECURSIVE MacStr(_)
MacStr(mac) ==
    IF Len(mac) <= 2 THEN [i \in 1..Len(mac) |-> Upper(mac[i])]
    ELSE <<Upper(mac[1]), Upper(mac[2]), ":">> \o MacStr(SubSeq(mac, 3, Len(mac)))

\* mac_address.replace(":", "").lower()
RECURSIVE CsvMac(_)
CsvMac(s) ==
    IF s = <<>> THEN <<>>
    ELSE IF Head(s) = ":" THEN CsvMac(Tail(s))
    ELSE <<Lower(Head(s))>> \o CsvMac(Tail(s))

\* --------------------------------------------------------------- addresses
RECURSIVE Pow2(_)
Pow2(n) == IF n = 0 THEN 1 ELSE 2 * Pow2(n - 1)

\* IPv4Address(address) parses
ValidAddress(a) == a \in 0..(Pow2(AddrBits) - 1)
\* a netmask parses
ValidNetmask(h) == h \in 0..AddrBits

\* get_network raises for an address or a netmask that does not parse
get_network_raises(address, netmask) == ~ValidAddress(address) \/ ~ValidNetmask(netmask)

\* IPv4Network(f"{address}/{netmask}", strict=False): host bits are masked off
get_network(address, netmask) ==
    [network_address |-> (address \div Pow2(netmask)) * Pow2(netmask), hostbits |-> netmask]

\* IPv4Address(address) raises AddressValueError for a malformed address
check_network_contains_ip_raises(network, address) == ~ValidAddress(address)

\* ip in network
check_network_contains_ip(network, address) ==
    /\ network.network_address <= address
    /\ address <= network.network_address + Pow2(network.hostbits) - 1

\* ------------------------------------------------------ Switch Normalizer
\* Characters removed by vlan.strip('vlan')
VlanStripChars == {"v", "l", "a", "n"}

\* ObservedVlan that keeps the VLAN of a matching entry once it has found one
RECURSIVE ObservedVlan_FirstMatch(_, _, _)
ObservedVlan_FirstMatch(ips, ip, acc) ==
    IF ips = <<>> THEN acc
    ELSE ObservedVlan_FirstMatch(Tail(ips), ip,
                      IF Has(acc) /\ Val(acc).kind = "str" THEN acc
                      ELSE IF ip = Head(ips).addr
                      THEN Some(PyStr(Strip(Head(ips).label, VlanStripChars)))
                      ELSE Some(PyInt(0)))

\* for vlan, addr in ip_actual['ips'].items(): every entry assigns ip_actual['vlan'];
\* acc is the value of the key before the entry (None: the key is not there).
RECURSIVE ObservedVlan(_, _, _)
ObservedVlan(ips, ip, acc) ==
    IF ips = <<>> THEN acc
    ELSE ObservedVlan(Tail(ips), ip,
                      IF ip = Head(ips).addr
                      THEN Some(PyStr(Strip(Head(ips).label, VlanStripChars)))
                      ELSE Some(PyInt(0)))

\* site['network_template']['networks'][name] is there
TemplateHas(site, name) ==
    /\ Has(site.network_template)
    /\ \E i \in 1..Len(Val(site.network_template).networks) :
          Val(site.network_template).networks[i].name = name

\* site['network_template']['networks'][name]['vlan_id']
TemplateVlan(site, name) ==
    LET nets == Val(site.network_template).networks
        i == CHOOSE j \in 1..Len(nets) : nets[j].name = name
    IN nets[i].vlan_id

\* The exception one device record raises in the body of the loop of
\* load_switches ("" when it raises none), in the order of the statements.
NormalizeError(site, dev) ==
    LET cfg == dev.ip_config IN
    IF Has(cfg.ip) /\ ~Has(cfg.netmask) THEN "KeyError: 'netmask'"
    ELSE IF Has(cfg.ip) /\ get_network_raises(Val(cfg.ip), Val(cfg.netmask)) THEN "ValueError: address"
    ELSE IF ~Has(cfg.network) THEN "KeyError: 'network'"
    ELSE IF Val(cfg.network) # "" /\ Val(cfg.network) # "default" /\ ~Has(site.network_template)
         THEN "KeyError: 'network_template'"
    ELSE IF Val(cfg.network) # "" /\ Val(cfg.network) # "default" /\ ~TemplateHas(site, Val(cfg.network))
         THEN "KeyError: network name"
    ELSE ""

\* Declared VLAN of a device record that raises nothing.
DeclaredVlan(site, dev) ==
    LET network == Val(dev.ip_config.network) IN
    IF network # "" /\ network # "default" THEN PyInt(TemplateVlan(site, network))
    ELSE IF network # "" /\ network = "default" THEN PyInt(1)
    ELSE PyInt(0)

\* The error the loop body logs for a device record that raises nothing.
NormalizeLog(dev) ==
    IF Val(dev.ip_config.network) = ""
    THEN <<[msg |-> "Did not match management network to VLAN", detail |-> ""]>> ELSE <<>>

\* The new_switch the loop body appends for a device record that raises nothing.
NormalizeSwitch(site, dev) ==
    LET cfg == dev.ip_config
        stat == dev.ip_stat
    IN [name          |-> IF Len(dev.name) < 1 THEN MacStr(dev.mac) ELSE dev.name,
        site          |-> site.name,
        site_id       |-> site.id,
        device_id     |-> dev.id,
        mac           |-> dev.mac,
        mac_str       |-> MacStr(dev.mac),
        ip_config     |-> [ip |-> cfg.ip, netmask |-> cfg.netmask, gateway |-> cfg.gateway,
                           network |-> cfg.network, vlan |-> Some(DeclaredVlan(site, dev))],
        ip_actual     |-> [ip |-> stat.ip, netmask |-> stat.netmask, gateway |-> stat.gateway,
                           ips |-> stat.ips, vlan |-> ObservedVlan(stat.ips, stat.ip, None)],
        net_obj       |-> IF Has(cfg.ip) THEN Some(get_network(Val(cfg.ip), Val(cfg.netmask))) ELSE None,
        ip_match      |-> None,
        netmask_match |-> None,
        gateway_match |-> None,
        vlan_match    |-> None,
        gateway_on_net |-> None]

\* The inner loop of load_switches over one site's device records:
\* the switches appended, the errors logged, and the exception that ended it.
RECURSIVE NormalizeAll(_, _, _)
NormalizeAll(site, devs, acc) ==
    IF devs = <<>> THEN acc
    ELSE IF NormalizeError(site, Head(devs)) # ""
         THEN [acc EXCEPT !.raised = NormalizeError(site, Head(devs))]
    ELSE NormalizeAll(site, Tail(devs),
                      [raised |-> "",
                       switches |-> Append(acc.switches, NormalizeSwitch(site, Head(devs))),
                       log |-> acc.log \o NormalizeLog(Head(devs))])

\* -------------------------------------------------- Reconciliation Engine
NoVlans == [cfg |-> None, act |-> None]
Reason(msg) == [msg |-> msg, vlans |-> NoVlans]

\* SetMatches that also writes the observed IP into the declared configuration
SetMatches_Overwrites(sw) ==
    [sw EXCEPT
       !.ip_match = Some(IF Has(sw.ip_config.ip)
                         THEN Val(sw.ip_config.ip) = sw.ip_actual.ip ELSE FALSE),
       !.netmask_match = Some(IF Has(sw.ip_config.netmask)
                              THEN Val(sw.ip_config.netmask) = sw.ip_actual.netmask ELSE FALSE),
       !.gateway_match = Some(IF Has(sw.ip_config.gateway)
                              THEN Val(sw.ip_config.gateway) = sw.ip_actual.gateway ELSE FALSE),
       !.ip_config.ip = Some(sw.ip_actual.ip)]

\* Lines 187-189: the three comparisons of declared and observed fields.
SetMatches(sw) ==
    [sw EXCEPT
       !.ip_match = Some(IF Has(sw.ip_config.ip)
                         THEN Val(sw.ip_config.ip) = sw.ip_actual.ip ELSE FALSE),
       !.netmask_match = Some(IF Has(sw.ip_config.netmask)
                              THEN Val(sw.ip_config.netmask) = sw.ip_actual.netmask ELSE FALSE),
       !.gateway_match = Some(IF Has(sw.ip_config.gateway)
                              THEN Val(sw.ip_config.gateway) = sw.ip_actual.gateway ELSE FALSE)]

\* Line 190 raises KeyError when ip_actual has no 'vlan'.
VlanMatchRaises(sw) == ~Has(sw.ip_config.vlan) \/ ~Has(sw.ip_actual.vlan)

\* Line 190: switch['ip_config']['vlan'] == switch['ip_actual']['vlan']
SetVlanMatch(sw) ==
    [sw EXCEPT !.vlan_match = Some(Val(sw.ip_config.vlan) = Val(sw.ip_actual.vlan))]

\* Line 193 raises: no declared gateway, or one that does not parse.
GatewayOnNetRaises(sw) ==
    /\ Has(sw.net_obj)
    /\ \/ ~Has(sw.ip_config.gateway)
       \/ check_network_contains_ip_raises(Val(sw.net_obj), Val(sw.ip_config.gateway))

\* Lines 192-195
SetGatewayOnNet(sw) ==
    [sw EXCEPT !.gateway_on_net =
        Some(IF Has(sw.net_obj)
             THEN check_network_contains_ip(Val(sw.net_obj), Val(sw.ip_config.gateway))
             ELSE FALSE)]

\* Result with the condition the comment of line 196 leaves out
Result_WithVlan(sw) ==
    IF Val(sw.ip_match) /\ Val(sw.gateway_match) /\ Val(sw.gateway_on_net) /\ Val(sw.vlan_match)
    THEN "PASS" ELSE "FAIL"

\* Line 196
Result(sw) ==
    IF Val(sw.ip_match) /\ Val(sw.gateway_match) /\ Val(sw.gateway_on_net) THEN "PASS" ELSE "FAIL"

\* Lines 201-208: the reason chosen from the (ip_match, gateway_match) pair
ReasonOfPair(sw) ==
    IF ~Val(sw.ip_match) /\ Val(sw.gateway_match) THEN Reason("Management Interface IP Mis-match")
    ELSE IF Val(sw.ip_match) /\ ~Val(sw.gateway_match) THEN Reason("Management Interface Gateway Mis-match")
    ELSE IF ~Val(sw.ip_match) /\ ~Val(sw.gateway_match) THEN Reason("Management Interface IP/Gateway Mis-match")
    ELSE Reason("Unknown failure")

\* Lines 209-210: the first override
ReasonOfGateway(sw, reason) ==
    IF ~Val(sw.gateway_on_net) THEN Reason("Management Interface IP/Gateway Missing or Dynamic")
    ELSE reason

\* Lines 211-212: the second override
ReasonOfVlan(sw, reason) ==
    IF ~Val(sw.vlan_match)
    THEN [msg |-> "Management Interface VLAN Incorrect",
          vlans |-> [cfg |-> sw.ip_config.vlan, act |-> sw.ip_actual.vlan]]
    ELSE reason

\* ReasonOf with the two overrides in the other order
ReasonOf_GatewayLast(sw) ==
    IF Val(sw.ip_match) /\ Val(sw.gateway_match) /\ Val(sw.gateway_on_net) THEN Reason("None")
    ELSE ReasonOfGateway(sw, ReasonOfVlan(sw, ReasonOfPair(sw)))

\* Lines 196-212
ReasonOf(sw) ==
    IF Result(sw) = "PASS" THEN Reason("None")
    ELSE ReasonOfVlan(sw, ReasonOfGateway(sw, ReasonOfPair(sw)))

\* Line 213: the row of a switch whose evaluation raised nothing
VerdictRow(sw) ==
    [kind |-> "verdict", name |-> sw.name, mac_str |-> sw.mac_str,
     network |-> sw.ip_config.network, vlan |-> sw.ip_config.vlan,
     result |-> Result(sw), reason |-> ReasonOf(sw), err |-> ""]

\* Line 216: the row of a switch whose evaluation raised e
ErrorRow(sw, e) ==
    [kind |-> "error", name |-> sw.name, mac_str |-> sw.mac_str,
     network |-> None, vlan |-> None,
     result |-> "", reason |-> Reason(""), err |-> e]

\* The body of the loop of check_switches for one switch (lines 186-217):
\* the switch as the body leaves it, the row it adds and what it logs.
\* The fields assigned before a raise stay assigned.
EvalSwitch(sw) ==
    LET s1 == SetMatches(sw) IN
    IF VlanMatchRaises(s1)
    THEN [sw |-> s1, row |-> ErrorRow(s1, "KeyError: 'vlan'"),
          log |-> <<[msg |-> "Error processing device details", detail |-> ""]>>]
    ELSE LET s2 == SetVlanMatch(s1) IN
         IF GatewayOnNetRaises(s2)
         THEN [sw |-> s2,
               row |-> ErrorRow(s2, IF Has(s2.ip_config.gateway)
                                    THEN "AddressValueError" ELSE "KeyError: 'gateway'"),
               log |-> <<[msg |-> "Error processing device details", detail |-> ""]>>]
         ELSE LET s3 == SetGatewayOnNet(s2) IN
              [sw |-> s3, row |-> VerdictRow(s3), log |-> <<>>]

\* SelectSwitches with the membership tested on the formatted MAC
RECURSIVE SelectSwitches_ByMacStr(_, _, _)
SelectSwitches_ByMacStr(sws, macs, i) ==
    IF i > Len(sws) THEN <<>>
    ELSE (IF sws[i].mac_str \in macs THEN <<i>> ELSE <<>>) \o SelectSwitches_ByMacStr(sws, macs, i + 1)

\* Line 181: [s for s in self.switches for x in switch_list if s['mac'] == x]
\* (switch_list holds no MAC twice: process_csv builds it from a set)
\* The result is the positions in self.switches of the chosen switches: the
\* list holds the same dict objects, which the loop then updates in place.
RECURSIVE SelectSwitches(_, _, _)
SelectSwitches(sws, macs, i) ==
    IF i > Len(sws) THEN <<>>
    ELSE (IF sws[i].mac \in macs THEN <<i>> ELSE <<>>) \o SelectSwitches(sws, macs, i + 1)

\* ------------------------------------------------------------- CSV input
\* process_csv, lines 71-81: the rows of the file become the set of site
\* names and the set of MACs without colons, in lower case.
process_csv(csv_data) ==
    [sites    |-> {csv_data[i].site_name : i \in 1..Len(csv_data)},
     switches |-> {CsvMac(csv_data[i].mac_address) : i \in 1..Len(csv_data)}]

\* ---------------------------------------------------- the remote inventory
SiteNames == <<"site1", "site2">>
TemplateId == "t1"
Template == [id |-> TemplateId, networks |-> <<[name |-> "mgmt", vlan_id |-> 20]>>]
Digits == <<"1", "2", "3", "4", "5", "6", "7", "8", "9">>
\* The MAC of the k-th switch of the inventory: MACs are unique in an organization.
MacOf(k) == <<"a", "a", "0", Digits[k]>>
\* An address that does not parse.
BadAddress == Pow2(AddrBits)

Labels == {<<"v", "l", "a", "n", "1">>, <<"v", "l", "a", "n", "2">>, <<"v", "l", "a", "n", "1", "0">>}
IpsEntries == [label : Labels, addr : {5, 6}]
\* VLAN -> IP mappings: at most MaxIps entries, no label twice, in any order.
IpsMaps ==
    UNION {{q \in [1..n -> IpsEntries] : \A i, j \in 1..n : q[i].label = q[j].label => i = j}
           : n \in 0..MaxIps}

\* Device records of the single-switch inventories.
OneDevices ==
    [name     : {<<>>, <<"s", "w">>},
     ip_config : [ip : {None, Some(5)}, netmask : {None, Some(1), Some(2)},
                  gateway : {None, Some(4), Some(1), Some(BadAddress)},
                  network : {None, Some(""), Some("default"), Some("mgmt"), Some("lab")}],
     ip_stat  : [ip : {5, 6}, netmask : {1}, gateway : {4, 1}, ips : IpsMaps]]

\* Device records of the inventories of several switches.
BatchDevices ==
    [name     : {<<"s", "w">>},
     ip_config : [ip : {Some(5)}, netmask : {Some(1)}, gateway : {Some(4), Some(1)},
                  network : {Some("default"), Some("mgmt")}],
     ip_stat  : [ip : {5}, netmask : {1}, gateway : {4},
                 ips : {<<>>, <<[label |-> <<"v", "l", "a", "n", "1">>, addr |-> 5]>>}]]

RawSite(i, tid) == [id |-> i, name |-> SiteNames[i], networktemplate_id |-> tid, network_template |-> None]

\* The device records the stats endpoint of site i returns: the id and the MAC
\* of a device are those of its place in the inventory.
RECURSIVE StatsOf(_, _, _)
StatsOf(devs, i, k) ==
    IF k > Len(devs) THEN <<>>
    ELSE (IF devs[k].site = i
          THEN <<[name |-> devs[k].rec.name, id |-> k, mac |-> MacOf(k),
                  ip_config |-> devs[k].rec.ip_config, ip_stat |-> devs[k].rec.ip_stat]>>
          ELSE <<>>) \o StatsOf(devs, i, k + 1)

Remote(tids, templates, devs) ==
    [sites |-> [i \in 1..Len(tids) |-> RawSite(i, tids[i])],
     templates |-> templates,
     stats |-> [i \in 1..Len(tids) |-> StatsOf(devs, i, 1)]]

CsvFiles ==
    {<<[site_name |-> "site1", mac_address |-> <<"A", "A", ":", "0", "1">>]>>,
     <<[site_name |-> "site1", mac_address |-> <<"A", "A", ":", "0", "1">>],
       [site_name |-> "site2", mac_address |-> <<"a", "a", "0", "2">>]>>,
     <<[site_name |-> "site1", mac_address |-> <<"f", "f", ":", "f", "f">>]>>,
     <<[site_name |-> "site1", mac_address |-> <<"f", "f", ":", "f", "f">>],
       [site_name |-> "site1", mac_address |-> <<"A", "A", ":", "0", "1">>]>>}

\* ----------------------------------------------------------------- states
Start ==
    /\ pc = "parse"
    /\ site_list = None
    /\ switch_list = None
    /\ sites = <<>>
    /\ network_templates = <<>>
    /\ new_switches = <<>>
    /\ site_idx = 0
    /\ switches = <<>>
    /\ selected = <<>>
    /\ idx = 0
    /\ rows = <<>>
    /\ log = <<>>
    /\ exit_code = None
    /\ printed = FALSE

\* Inventories of two sites and up to MaxSwitches switches.
Init ==
    /\ Start
    /\ \E tids \in [1..2 -> {None, Some(TemplateId)}] :
       \E n \in 0..MaxSwitches :
       \E devs \in [1..n -> [site : 1..2, rec : BatchDevices]] :
          remote = Remote(tids, <<Template>>, devs)
    /\ cli \in {[all |-> TRUE, csv |-> None], [all |-> FALSE, csv |-> None]}
               \cup {[all |-> FALSE, csv |-> Some(f)] : f \in CsvFiles}

\* Inventories of one site and one switch, checked whole (--all).
InitOne ==
    /\ Start
    /\ \E tid \in {None, Some(TemplateId)} :
       \E templates \in {<<>>, <<Template>>} :
       \E rec \in OneDevices :
          remote = Remote(<<tid>>, templates, <<[site |-> 1, rec |-> rec]>>)
    /\ cli = [all |-> TRUE, csv |-> None]

\* ---------------------------------------------------------------- actions
LogError(msg, detail) == [msg |-> msg, detail |-> detail]

\* An exception that leaves main(): the guard of lines 217-218 logs it and the
\* script ends there, so the interpreter exits with status 0.
Propagate(logged, e) ==
    /\ log' = log \o logged \o <<LogError("Error", e)>>
    /\ exit_code' = Some(0)
    /\ pc' = "exited"

\* parse(), lines 179-184: the CSV file, unless --all is given; a file that
\* is not found gives (None, None).
Parse ==
    /\ pc = "parse"
    /\ site_list' = IF ~cli.all /\ Has(cli.csv) THEN Some(process_csv(Val(cli.csv)).sites) ELSE None
    /\ switch_list' = IF ~cli.all /\ Has(cli.csv) THEN Some(process_csv(Val(cli.csv)).switches) ELSE None
    /\ pc' = "load_sites"
    /\ UNCHANGED <<remote, cli, sites, network_templates, new_switches, site_idx,
                   switches, selected, idx, rows, log, exit_code, printed>>

\* [s for s in sites if s['name'] in site_list]
FilterSites(ss, names) == SelectSeq(ss, LAMBDA s : s.name \in names)

\* Org.load_sites, the fetch succeeds
load_sites ==
    /\ pc = "load_sites"
    /\ sites' = IF Has(site_list) /\ Val(site_list) # {}
                THEN FilterSites(remote.sites, Val(site_list)) ELSE remote.sites
    /\ pc' = "load_network_templates"
    /\ UNCHANGED <<remote, cli, site_list, switch_list, network_templates, new_switches,
                   site_idx, switches, selected, idx, rows, log, exit_code, printed>>

\* Org.load_sites, the fetch fails: api.get and load_sites log and re-raise
load_sites_fails ==
    /\ pc = "load_sites"
    /\ Propagate(<<LogError("Error getting data", ""), LogError("Error getting org sites", "")>>,
                 "fetch failed")
    /\ UNCHANGED <<remote, cli, site_list, switch_list, sites, network_templates, new_switches,
                   site_idx, switches, selected, idx, rows, printed>>

\* Org.load_network_templates, the fetch succeeds
load_network_templates ==
    /\ pc = "load_network_templates"
    /\ network_templates' = remote.templates
    /\ pc' = "match"
    /\ UNCHANGED <<remote, cli, site_list, switch_list, sites, new_switches,
                   site_idx, switches, selected, idx, rows, log, exit_code, printed>>

\* Org.load_network_templates, the fetch fails
load_network_templates_fails ==
    /\ pc = "load_network_templates"
    /\ Propagate(<<LogError("Error getting data", ""), LogError("Error getting network templates", "")>>,
                 "fetch failed")
    /\ UNCHANGED <<remote, cli, site_list, switch_list, sites, network_templates, new_switches,
                   site_idx, switches, selected, idx, rows, printed>>

\* The first template whose id is the site's networktemplate_id, if any
MatchedTemplate(site, templates) ==
    IF Has(site.networktemplate_id) /\ Val(site.networktemplate_id) # ""
       /\ \E j \in 1..Len(templates) : templates[j].id = Val(site.networktemplate_id)
    THEN Some(templates[CHOOSE j \in 1..Len(templates) :
                  /\ templates[j].id = Val(site.networktemplate_id)
                  /\ \A k \in 1..(j - 1) : templates[k].id # Val(site.networktemplate_id)])
    ELSE site.network_template

\* Org.match_network_template_to_site, then line 60 and the start of load_switches
match_network_template_to_site ==
    /\ pc = "match"
    /\ sites' = [i \in 1..Len(sites) |->
                   [sites[i] EXCEPT !.network_template = MatchedTemplate(sites[i], network_templates)]]
    /\ switches' = <<>>
    /\ new_switches' = <<>>
    /\ site_idx' = 1
    /\ pc' = "load_switches"
    /\ UNCHANGED <<remote, cli, site_list, switch_list, network_templates,
                   selected, idx, rows, log, exit_code, printed>>

\* self.switches assigned as each site is loaded
SwitchesWhileLoading_Eager(current, loaded) == loaded

\* What load_switches assigns to self.switches while it loads a site: nothing,
\* the list is assigned once, after the last site (line 138).
SwitchesWhileLoading(current, loaded) == current

\* Org.load_switches, one site: the stats are fetched and every device record
\* of the site is normalized; an exception of the loop body leaves main().
load_switches_site ==
    /\ pc = "load_switches"
    /\ site_idx <= Len(sites)
    /\ LET site == sites[site_idx]
           r == NormalizeAll(site, remote.stats[site.id], [raised |-> "", switches |-> <<>>, log |-> <<>>])
       IN /\ new_switches' = new_switches \o r.switches
          /\ switches' = SwitchesWhileLoading(switches, new_switches')
          /\ IF r.raised # ""
             THEN /\ Propagate(r.log, r.raised)
                  /\ UNCHANGED site_idx
             ELSE /\ log' = log \o r.log
                  /\ site_idx' = site_idx + 1
                  /\ UNCHANGED <<pc, exit_code>>
    /\ UNCHANGED <<remote, cli, site_list, switch_list, sites, network_templates,
                   selected, idx, rows, printed>>

\* Org.get_switches_stats fails for the site: api.get and get_switches_stats
\* log and re-raise
get_switches_stats_fails ==
    /\ pc = "load_switches"
    /\ site_idx <= Len(sites)
    /\ Propagate(<<LogError("Error getting data", ""), LogError("Error getting switch stats", "")>>,
                 "fetch failed")
    /\ UNCHANGED <<remote, cli, site_list, switch_list, sites, network_templates, new_switches,
                   site_idx, switches, selected, idx, rows, printed>>

\* Line 138, then main() lines 202-205 and check_switches lines 180-184
load_switches_done ==
    /\ pc = "load_switches"
    /\ site_idx > Len(sites)
    /\ switches' = new_switches
    /\ selected' = IF Has(switch_list) /\ Val(switch_list) # {}
                   THEN SelectSwitches(new_switches, Val(switch_list), 1)
                   ELSE [i \in 1..Len(new_switches) |-> i]
    /\ idx' = 1
    /\ pc' = "check_switches"
    /\ UNCHANGED <<remote, cli, site_list, switch_list, sites, network_templates, new_switches,
                   site_idx, rows, log, exit_code, printed>>

\* A handler that adds the row and leaves the loop
AfterError_Break(r) == [row |-> <<r.row>>, continue |-> FALSE]

\* What the handler of lines 214-217 does with the table and with the loop.
AfterError(r) == [row |-> <<r.row>>, continue |-> TRUE]

\* check_switches, one turn of the loop of line 185
check_switches ==
    /\ pc = "check_switches"
    /\ idx <= Len(selected)
    /\ LET r == EvalSwitch(switches[selected[idx]])
           h == IF r.row.kind = "error" THEN AfterError(r) ELSE [row |-> <<r.row>>, continue |-> TRUE]
       IN /\ switches' = [switches EXCEPT ![selected[idx]] = r.sw]
          /\ rows' = rows \o h.row
          /\ log' = log \o r.log
          /\ idx' = IF h.continue THEN idx + 1 ELSE Len(selected) + 1
    /\ UNCHANGED <<pc, remote, cli, site_list, switch_list, sites, network_templates,
                   new_switches, site_idx, selected, exit_code, printed>>

\* check_switches returns the table, main() prints it and the script ends
check_switches_return ==
    /\ pc = "check_switches"
    /\ idx > Len(selected)
    /\ printed' = TRUE
    /\ exit_code' = Some(0)
    /\ pc' = "exited"
    /\ UNCHANGED <<remote, cli, site_list, switch_list, sites, network_templates,
                   new_switches, site_idx, switches, selected, idx, rows, log>>

Next ==
    \/ Parse
    \/ load_sites
    \/ load_sites_fails
    \/ load_network_templates
    \/ load_network_templates_fails
    \/ match_network_template_to_site
    \/ load_switches_site
    \/ get_switches_stats_fails
    \/ load_switches_done
    \/ check_switches
    \/ check_switches_return

Spec == Init /\ [][Next]_vars
SpecOne == InitOne /\ [][Next]_vars

\* ------------------------------------------------------------ properties
\* The switch of the k-th row of the table, as check_switches left it
RowSwitch(k) == switches[selected[k]]
\* The same switch as load_switches built it
Normalized(k) == new_switches[selected[k]]
\* Some api.get of the run failed
FetchFailed == \E i \in 1..Len(log) : log[i].msg = "Error getting data"

\* C1: for every switch check_switches evaluates without error the result is
\* PASS exactly when ip_match, gateway_match and gateway_on_net are all true and
\* FAIL otherwise, and a PASS carries the reason "None"; netmask_match and
\* vlan_match take no part.
C1_PassIffThreeFlags ==
    \A k \in 1..Len(rows) :
        rows[k].kind = "verdict" =>
            LET sw == RowSwitch(k) IN
            /\ rows[k].result \in {"PASS", "FAIL"}
            /\ rows[k].result = "PASS" <=>
                   (sw.ip_match = Some(TRUE) /\ sw.gateway_match = Some(TRUE)
                    /\ sw.gateway_on_net = Some(TRUE))
            /\ rows[k].result = "PASS" => rows[k].reason = Reason("None")

\* A PASS whose netmask_match and vlan_match are both false
C1_Witness ==
    \E k \in 1..Len(rows) :
        /\ rows[k].kind = "verdict"
        /\ rows[k].result = "PASS"
        /\ rows[k].reason = Reason("None")
        /\ RowSwitch(k).netmask_match = Some(FALSE)
        /\ RowSwitch(k).vlan_match = Some(FALSE)

\* C2: the reason of a FAIL follows a total priority order: the VLAN message
\* (with the declared and the observed VLAN) when vlan_match is false, else the
\* "Missing or Dynamic" message when gateway_on_net is false, else the message
\* of the (ip_match, gateway_match) pair.
C2_ReasonPriority ==
    \A k \in 1..Len(rows) :
        (rows[k].kind = "verdict" /\ rows[k].result = "FAIL") =>
            LET sw == RowSwitch(k) IN
            IF sw.vlan_match = Some(FALSE)
            THEN /\ rows[k].reason.msg = "Management Interface VLAN Incorrect"
                 /\ rows[k].reason.vlans = [cfg |-> sw.ip_config.vlan, act |-> sw.ip_actual.vlan]
            ELSE IF sw.gateway_on_net = Some(FALSE)
            THEN rows[k].reason = Reason("Management Interface IP/Gateway Missing or Dynamic")
            ELSE IF sw.ip_match = Some(FALSE) /\ sw.gateway_match = Some(TRUE)
            THEN rows[k].reason = Reason("Management Interface IP Mis-match")
            ELSE IF sw.ip_match = Some(TRUE) /\ sw.gateway_match = Some(FALSE)
            THEN rows[k].reason = Reason("Management Interface Gateway Mis-match")
            ELSE /\ sw.ip_match = Some(FALSE)
                 /\ sw.gateway_match = Some(FALSE)
                 /\ rows[k].reason = Reason("Management Interface IP/Gateway Mis-match")

\* A FAIL with vlan_match and gateway_on_net both false: the VLAN message wins
C2_Witness ==
    \E k \in 1..Len(rows) :
        /\ rows[k].kind = "verdict"
        /\ rows[k].result = "FAIL"
        /\ RowSwitch(k).vlan_match = Some(FALSE)
        /\ RowSwitch(k).gateway_on_net = Some(FALSE)
        /\ rows[k].reason.msg = "Management Interface VLAN Incorrect"

\* C3: every switch without a declared IP has no net_obj and, once
\* check_switches has been through it, gateway_on_net false, ip_match false and
\* the result FAIL.
C3_NoDeclaredIpFails ==
    \A k \in 1..Len(rows) :
        ~Has(RowSwitch(k).ip_config.ip) =>
            /\ RowSwitch(k).net_obj = None
            /\ RowSwitch(k).gateway_on_net = Some(FALSE)
            /\ RowSwitch(k).ip_match = Some(FALSE)
            /\ rows[k].result = "FAIL"

\* The evaluation of the normalized switch raises
EvalRaises(sw) == VlanMatchRaises(sw) \/ GatewayOnNetRaises(sw)

\* C4: an error in the evaluation of one switch never ends the loop of
\* check_switches: every switch the loop has been through has one row, in the
\* order of the selection, the row of a switch that raised is an error row, the
\* row of any other switch is the one its evaluation alone gives, and
\* check_switches returns with a row for every selected switch.
C4_ErrorsNeverAbortBatch ==
    idx >= 1 =>
        /\ Len(rows) = idx - 1
        /\ idx <= Len(selected) + 1
        /\ \A k \in 1..Len(rows) :
              /\ rows[k].mac_str = MacStr(Normalized(k).mac)
              /\ rows[k].kind = "error" <=> EvalRaises(Normalized(k))
              /\ rows[k] = EvalSwitch(Normalized(k)).row
        /\ \A k, j \in 1..Len(selected) : k < j => selected[k] < selected[j]
        /\ pc = "exited" => (Len(rows) = Len(selected) /\ printed)

\* check_switches has returned a table with an error row followed by a verdict
C4_Witness ==
    /\ pc = "exited"
    /\ printed
    /\ \E k, j \in 1..Len(rows) :
          k < j /\ rows[k].kind = "error" /\ rows[j].kind = "verdict"

\* The device records the run has fetched for the i-th loaded site
DevicesOf(i) == remote.stats[sites[i].id]
\* load_switches has been through the device records of the i-th loaded site:
\* it has gone on to the next site, or an exception of the loop body ended it there
SiteNormalized(i) ==
    \/ site_idx > i
    \/ site_idx = i /\ pc = "exited" /\ ~FetchFailed
\* The declared network name is neither empty nor "default" and the site's
\* template, if it has one, has no entry for it
Unresolvable(site, dev) ==
    /\ Has(dev.ip_config.network)
    /\ Val(dev.ip_config.network) \notin {"", "default"}
    /\ ~TemplateHas(site, Val(dev.ip_config.network))
\* The record is in the list load_switches builds, with declared VLAN 0
LoadedWithVlan0(dev) ==
    \E k \in 1..Len(new_switches) :
        /\ new_switches[k].mac = dev.mac
        /\ new_switches[k].ip_config.vlan = Some(PyInt(0))
\* load_switches logged that a management network matched no VLAN
LoggedUnmatched == \E i \in 1..Len(log) : log[i].msg = "Did not match management network to VLAN"

\* C5: a declared network name other than "default" that cannot be resolved
\* (no attached template, or no entry of that name) affects that switch alone:
\* its declared VLAN is 0, an error is logged and the run goes on to the
\* report, where the switch appears.
C5_UnresolvedNameIsolated ==
    \A i \in 1..Len(sites) :
        \A j \in 1..Len(DevicesOf(i)) :
            (SiteNormalized(i) /\ Unresolvable(sites[i], DevicesOf(i)[j])) =>
                /\ LoadedWithVlan0(DevicesOf(i)[j])
                /\ LoggedUnmatched
                /\ pc = "exited" => (FetchFailed \/ printed)

\* C6: a failed fetch (sites, templates, or the stats of any site) ends the
\* run: no switch is evaluated, the table has no row and self.switches holds
\* nothing of the sites loaded before the failure.
C6_FetchFailureAbortsRun ==
    FetchFailed =>
        /\ pc = "exited"
        /\ ~printed
        /\ idx = 0
        /\ rows = <<>>
        /\ switches = <<>>

\* The stats of the second site fail after the first site gave switches
C6_Witness ==
    /\ FetchFailed
    /\ site_idx = 2
    /\ Len(new_switches) >= 1
    /\ pc = "exited"

\* C7: a fetch error that reaches the top level ends the run with a non-zero
\* exit status and a logged error.
C7_FetchErrorExitsNonZero ==
    (pc = "exited" /\ FetchFailed) =>
        /\ log[Len(log)] = LogError("Error", "fetch failed")
        /\ Has(exit_code)
        /\ Val(exit_code) # 0

\* The record raises nothing before the network name is read
WellFormedAddress(dev) ==
    Has(dev.ip_config.ip) =>
        (Has(dev.ip_config.netmask) /\ ~get_network_raises(Val(dev.ip_config.ip), Val(dev.ip_config.netmask)))

\* C8: a device record whose declared network name is absent or empty is
\* normalized with declared VLAN 0 and a logged resolution failure, and every
\* switch that reaches check_switches has a declared VLAN that is an int >= 0.
C8_UnsetNetworkGivesVlan0 ==
    /\ \A i \in 1..Len(sites) :
          \A j \in 1..Len(DevicesOf(i)) :
              LET dev == DevicesOf(i)[j] IN
              (/\ SiteNormalized(i)
               /\ WellFormedAddress(dev)
               /\ (~Has(dev.ip_config.network) \/ dev.ip_config.network = Some(""))) =>
                  (LoadedWithVlan0(dev) /\ LoggedUnmatched)
    /\ \A k \in 1..Len(switches) :
          /\ Has(switches[k].ip_config.vlan)
          /\ Val(switches[k].ip_config.vlan).kind = "int"
          /\ Val(switches[k].ip_config.vlan).n >= 0

\* C9: a switch declared on network "default" whose VLAN -> IP mapping is the
\* single entry "vlan1" with the observed IP has declared VLAN 1 and observed
\* VLAN 1, so vlan_match is true, and it passes when IP and gateway match and
\* the gateway is in the declared network.
C9_DefaultNetworkMatchesVlan1 ==
    \A k \in 1..Len(rows) :
        LET sw == RowSwitch(k) IN
        (/\ sw.ip_config.network = Some("default")
         /\ sw.ip_actual.ips = <<[label |-> <<"v", "l", "a", "n", "1">>, addr |-> sw.ip_actual.ip]>>) =>
            /\ sw.ip_config.vlan = Some(PyInt(1))
            /\ sw.ip_actual.vlan = Some(PyInt(1))
            /\ sw.vlan_match = Some(TRUE)
            /\ (sw.ip_match = Some(TRUE) /\ sw.gateway_match = Some(TRUE)
                /\ sw.gateway_on_net = Some(TRUE)) => rows[k].result = "PASS"

\* C10: every normalized switch has an observed VLAN, which is 0 when no entry
\* of the mapping carries the observed IP (an empty mapping too), so the
\* comparison of line 190 never fails for lack of it.
C10_ObservedVlanAlwaysSet ==
    /\ \A k \in 1..Len(switches) :
          /\ Has(switches[k].ip_actual.vlan)
          /\ (\A e \in 1..Len(switches[k].ip_actual.ips) :
                  switches[k].ip_actual.ips[e].addr # switches[k].ip_actual.ip)
                => switches[k].ip_actual.vlan = Some(PyInt(0))
    /\ \A k \in 1..Len(rows) : rows[k].err # "KeyError: 'vlan'"


\* C11: check_network_contains_ip never raises for a declared gateway that
\* does not parse: it returns false for it, and for one that parses it returns
\* true exactly when the gateway lies in the range of the network.  So every
\* switch with a net_obj and a declared gateway whose evaluation reaches line
\* 193 gets gateway_on_net, and none gets the error row of an address error.
C11_ContainsNeverRaises ==
    \A k \in 1..Len(rows) :
        LET sw == RowSwitch(k) IN
        (Has(sw.net_obj) /\ Has(sw.ip_config.gateway) /\ ~VlanMatchRaises(sw)) =>
            /\ rows[k].err # "AddressValueError"
            /\ sw.gateway_on_net =
                  Some(/\ ValidAddress(Val(sw.ip_config.gateway))
                       /\ Val(sw.ip_config.gateway) \div Pow2(Val(sw.net_obj).hostbits)
                            = Val(sw.net_obj).network_address \div Pow2(Val(sw.net_obj).hostbits))


\* check_switches was given a MAC filter (a list that is not empty)
Filtered == Has(switch_list) /\ Val(switch_list) # {}

\* C12: with a MAC filter, the switches check_switches evaluates are exactly
\* the switches of the inventory whose raw MAC is in the filter, each with one
\* row; a MAC of the filter that no switch has gives no row and no error.
C12_FilterSelectsByRawMac ==
    (Filtered /\ idx >= 1) =>
        /\ \A i \in 1..Len(switches) :
              (switches[i].mac \in Val(switch_list)) <=> (\E k \in 1..Len(selected) : selected[k] = i)
        /\ \A k, j \in 1..Len(selected) : selected[k] = selected[j] => k = j
        /\ \A k \in 1..Len(rows) :
              /\ rows[k].mac_str = RowSwitch(k).mac_str
              /\ RowSwitch(k).mac \in Val(switch_list)
        /\ pc = "exited" =>
              /\ printed
              /\ Len(rows) = Cardinality({i \in 1..Len(switches) : switches[i].mac \in Val(switch_list)})
              /\ \A i \in 1..Len(log) : log[i].msg \in {"Did not match management network to VLAN",
                                                        "Error processing device details"}

\* The filter holds the MAC of one switch of two and a MAC no switch has; the
\* table has the one row, and the formatted MAC of its switch is not in the filter
C12_Witness ==
    /\ Filtered
    /\ pc = "exited"
    /\ printed
    /\ Len(switches) = 2
    /\ Len(rows) = 1
    /\ RowSwitch(1).mac_str \notin Val(switch_list)
    /\ \E m \in Val(switch_list) : \A i \in 1..Len(switches) : switches[i].mac # m


\* The verdict fields of a switch and of its row
VerdictFields(sw, row) ==
    [ip_match |-> sw.ip_match, netmask_match |-> sw.netmask_match,
     gateway_match |-> sw.gateway_match, vlan_match |-> sw.vlan_match,
     gateway_on_net |-> sw.gateway_on_net, result |-> row.result, reason |-> row.reason]

\* C13: the loop body of check_switches leaves the declared configuration, the
\* observed configuration and net_obj of a switch as load_switches built them,
\* and run again on the switch it has evaluated it gives the same verdict
\* fields, the same row and the same switch.
C13_EvaluationIdempotent ==
    \A k \in 1..Len(rows) :
        LET again == EvalSwitch(RowSwitch(k)) IN
        /\ RowSwitch(k).ip_config = Normalized(k).ip_config
        /\ RowSwitch(k).ip_actual = Normalized(k).ip_actual
        /\ RowSwitch(k).net_obj = Normalized(k).net_obj
        /\ VerdictFields(again.sw, again.row) = VerdictFields(RowSwitch(k), rows[k])
        /\ again.row = rows[k]
        /\ again.sw = RowSwitch(k)

\* An evaluated switch whose declared IP differs from the observed one
C13_Witness ==
    \E k \in 1..Len(rows) :
        /\ rows[k].kind = "verdict"
        /\ Has(RowSwitch(k).ip_config.ip)
        /\ Val(RowSwitch(k).ip_config.ip) # RowSwitch(k).ip_actual.ip
        /\ RowSwitch(k).ip_match = Some(FALSE)
        /\ EvalSwitch(RowSwitch(k)).sw.ip_match = Some(FALSE)


\* The label of an entry without its "vlan" prefix
LabelNumber(label) == SubSeq(label, 5, Len(label))

\* C14: the observed VLAN of a switch with a non-empty VLAN -> IP mapping is
\* decided by the last entry of the mapping alone: the label of that entry
\* without its prefix when its IP is the observed IP, and 0 otherwise, whatever
\* the entries before it are.
C14_LastEntryDecidesObservedVlan ==
    \A k \in 1..Len(new_switches) :
        LET act == new_switches[k].ip_actual
            last == act.ips[Len(act.ips)]
        IN Len(act.ips) >= 1 =>
              act.vlan = IF last.addr = act.ip
                         THEN Some(PyStr(LabelNumber(last.label)))
                         ELSE Some(PyInt(0))

\* An earlier entry carries the observed IP, the last one does not: the
\* observed VLAN is 0
C14_Witness ==
    \E k \in 1..Len(new_switches) :
        LET act == new_switches[k].ip_actual IN
        /\ Len(act.ips) = 2
        /\ act.ips[1].addr = act.ip
        /\ act.ips[2].addr # act.ip
        /\ act.vlan = Some(PyInt(0))

====
